---- MODULE Spec2Model ----
(***************************************************************************)
(* A model of sk_sugar/core.py (SUGAR: geometry-based data generation).    *)
(*                                                                         *)
(* Real numbers (coordinates, distances, bandwidths, kernel entries,       *)
(* degrees, covariances) are fixed-point integers: the real x is the       *)
(* integer x * Scale.  Counts (N, M, k, t, npts) are plain integers.       *)
(* The floating-point non-number NaN is the marker NaN; a value too large   *)
(* for the fixed-point range (10**15 and what is derived from it) is Huge. *)
(***************************************************************************)
EXTENDS Integers, Sequences, FiniteSets, TLC

\* ------------------------------------------------------------------------
\* Bounds of the model
\* ------------------------------------------------------------------------

\* Largest number of rows of a data set (gauss_kernel, degrees, numpts,
\* generate, sugar).
MaxN == 3

\* Largest number of rows of a second point set that is not the first one
\* (the rectangular kernels), and the largest total M asked of sugar.
MaxM == 2

\* ------------------------------------------------------------------------
\* Fixed-point arithmetic
\* ------------------------------------------------------------------------

\* Resolution of the fixed-point reals: four decimal digits.
Scale == 10 ^ 4

\* Marker of a floating-point NaN: a value no computation of the model
\* yields.
NaN == 0 - 2 * 10 ^ 9

\* Marker of a float beyond the fixed-point range: inf, and the 10**15 of
\* the 'minmax' bandwidth with what is derived from it.
Huge == 10 ^ 9

\* floor(x * Scale / z) for 0 <= x and 0 < z < 2 * 10^7, by long division
\* (the product itself may be out of range).
TimesScaleOver(x, z) ==
  LET t1 == (x % z) * 100
      t2 == (t1 % z) * 100
  IN  (x \div z) * Scale + (t1 \div z) * 100 + t2 \div z

\* x * y of two fixed-point reals, without leaving the integer
\* range on the way: x = xh * Scale + xl and y = yh * Scale + yl.
MulFx(x, y) ==
  (x \div Scale) * y + (x % Scale) * (y \div Scale) + ((x % Scale) * (y % Scale)) \div Scale

Abs(x) == IF x < 0 THEN 0 - x ELSE x

Min2(x, y) == IF x < y THEN x ELSE y

Max2(x, y) == IF x > y THEN x ELSE y

RECURSIVE SeqSum(_)
SeqSum(s) == IF s = << >> THEN 0 ELSE Head(s) + SeqSum(Tail(s))

RECURSIVE SeqMax(_)
SeqMax(s) == IF Len(s) = 1 THEN s[1] ELSE Max2(Head(s), SeqMax(Tail(s)))

RECURSIVE SeqMin(_)
SeqMin(s) == IF Len(s) = 1 THEN s[1] ELSE Min2(Head(s), SeqMin(Tail(s)))

\* Insert x into the ascending sequence s.
RECURSIVE Insert(_, _)
Insert(x, s) ==
  IF s = << >> THEN << x >>
  ELSE IF x <= Head(s) THEN << x >> \o s
  ELSE << Head(s) >> \o Insert(x, Tail(s))

\* np.sort of a vector (ascending).
RECURSIVE Sort(_)
Sort(s) == IF s = << >> THEN << >> ELSE Insert(Head(s), Sort(Tail(s)))

\* np.median of a non-empty vector: the middle value, or the mean of the two
\* middle values.
Median(s) ==
  LET t == Sort(s)
      n == Len(s)
  IN  IF n % 2 = 1 THEN t[(n + 1) \div 2]
      ELSE (t[n \div 2] + t[n \div 2 + 1]) \div 2

\* Integer square root (largest r with r * r <= n), by bisection.
RECURSIVE Bisect(_, _, _)
Bisect(n, lo, hi) ==
  IF lo >= hi THEN lo
  ELSE LET mid == (lo + hi + 1) \div 2
       IN  IF mid * mid <= n THEN Bisect(n, mid, hi) ELSE Bisect(n, lo, mid - 1)

ISqrt(n) == Bisect(n, 0, Min2(n, 46340))

\* sqrt of a fixed-point real, as a fixed-point real (three digits kept so
\* that the radicand stays in range).
SqrtFx(x) == ISqrt((x \div 100) * Scale) * 10

\* exp(-n) for a whole number n >= 0, as a fixed-point real.
ExpNegInt(n) ==
  IF n >= 10 THEN 0
  ELSE << 10000, 3679, 1353, 498, 183, 67, 25, 9, 3, 1 >>[n + 1]

\* The Taylor series of exp(-f), 0 <= f < 1, term by term: term k is
\* (-f)^k / k!.
RECURSIVE Taylor(_, _, _, _)
Taylor(f, k, term, acc) ==
  IF k > 9 \/ term = 0 THEN acc
  ELSE LET next == (term * f) \div (k * Scale)
       IN  Taylor(f, k + 1, next,
                  IF k % 2 = 1 THEN acc - next ELSE acc + next)

\* exp(-x) for a fixed-point x >= 0.
ExpNeg(x) ==
  IF x >= 10 * Scale THEN 0
  ELSE (ExpNegInt(x \div Scale) * Max2(Taylor(x % Scale, 1, Scale, Scale), 0))
         \div Scale

\* ------------------------------------------------------------------------
\* validate_sigma, gauss_kernel, degrees
\* ------------------------------------------------------------------------

\* The bandwidth specifications handed to the kernel: a name, a number
\* (a fixed-point real) or a callable.  "bogus" is a string that is no
\* heuristic name.
VALID_SIGMAS == { "minmax", "median", "std", "knn" }

SigmaName(n) == [kind |-> "str", name |-> n, val |-> 0]

SigmaNum(v) == [kind |-> "num", name |-> "", val |-> v]

\* A user function of the distance matrix; the one of the model returns the
\* largest distance (a scalar).
SigmaCallable == [kind |-> "callable", name |-> "max", val |-> 0]

is_known_lax(s) == TRUE

\* validate_sigma: is_known.
is_known(s) ==
  \/ s.kind = "str" /\ s.name \in VALID_SIGMAS
  \/ s.kind = "callable"
  \/ s.kind = "num"

\* Number of rows / columns of a matrix held as a sequence of rows.
Rows(m) == Len(m)

Cols(m) == IF m = << >> THEN 0 ELSE Len(m[1])

Column(m, j) == [i \in 1..Rows(m) |-> m[i][j]]

Transpose(m) == [j \in 1..Cols(m) |-> Column(m, j)]

\* The squared distance of two points, from coordinate differences cut to
\* three digits (so that the sum stays in range).
RECURSIVE SqDist(_, _)
SqDist(p, q) ==
  IF p = << >> THEN 0
  ELSE (Abs(Head(p) - Head(q)) \div 10) * (Abs(Head(p) - Head(q)) \div 10)
         + SqDist(Tail(p), Tail(q))

\* Euclidean distance of two points.
Dist(p, q) == ISqrt(SqDist(p, q)) * 10

\* cdist(data1, data2, metric='euclidean').
cdist(d1, d2) == [i \in 1..Len(d1) |-> [j \in 1..Len(d2) |-> Dist(d1[i], d2[j])]]

\* x ** 2 and 2 * x ** 2 of a fixed-point real, Huge when out of range.
TwoSquare(x) ==
  IF x >= 4 * Scale THEN Huge ELSE 2 * ((x * x) \div Scale)

\* sigma == 'minmax': D + np.eye(D.shape[0]) * 10**15 broadcasts when the
\* shapes (N1, N2) and (N1, N1) are compatible, and raises otherwise.  The
\* sum has N1 rows and max(N1, N2) columns.
minmax_broadcasts(D) == Rows(D) = Cols(D) \/ Cols(D) = 1 \/ Rows(D) = 1

minmax_sum(D) ==
  LET n1 == Rows(D)
      n2 == Cols(D)
      w  == Max2(n1, n2)
  IN  [i \in 1..n1 |-> [j \in 1..w |->
         IF (IF n1 = 1 THEN 1 ELSE j) = i
         THEN Huge
         ELSE D[i][IF n2 = 1 THEN 1 ELSE j]]]

minmax_sigma(D) ==
  LET S       == minmax_sum(D)
      min_dev == [j \in 1..Cols(S) |-> SeqMin(Column(S, j))]
      eps_val == SeqMax(min_dev)
  IN  IF eps_val >= Huge THEN Huge ELSE TwoSquare(eps_val)

\* sigma == 'median': np.median(np.median(D, axis=1)).
median_sigma(D) == Median([i \in 1..Rows(D) |-> Median(D[i])])

\* sigma == 'std': np.std(np.mean(D, axis=0), ddof=1); NaN for one column.
std_sigma(D) ==
  LET n    == Cols(D)
      m    == [j \in 1..n |-> SeqSum(Column(D, j)) \div Rows(D)]
      mean == SeqSum(m) \div n
      sq   == [j \in 1..n |-> ((m[j] - mean) * (m[j] - mean)) \div Scale]
  IN  IF n = 1 THEN NaN ELSE SqrtFx(SeqSum(sq) \div (n - 1))

\* sigma == 'knn': row k (0-indexed) of the column-wise sorted distances.
knn_sigma(D, k) == [j \in 1..Cols(D) |-> Sort(Column(D, j))[k + 1]]

\* sigma * fac of a resolved scalar.
TimesFac(x, fac) ==
  IF x = NaN THEN NaN ELSE IF x >= Huge THEN Huge ELSE x * fac

Scalar(x) == [shape |-> "scalar", val |-> << x >>, err |-> "none"]

Vector(v) == [shape |-> "vector", val |-> v, err |-> "none"]

Raise(e) == [shape |-> "none", val |-> << >>, err |-> e]

\* gauss_kernel, lines 140-169: the resolved bandwidth, or the error raised
\* on the way.
resolve_sigma(D, sigma, k, fac) ==
  IF sigma.kind = "str" /\ sigma.name = "minmax" THEN
       IF minmax_broadcasts(D) THEN Scalar(TimesFac(minmax_sigma(D), fac))
       ELSE Raise("ValueError")
  ELSE IF sigma.kind = "str" /\ sigma.name = "median" THEN
       Scalar(TimesFac(median_sigma(D), fac))
  ELSE IF sigma.kind = "str" /\ sigma.name = "std" THEN
       Scalar(TimesFac(std_sigma(D), fac))
  ELSE IF sigma.kind = "str" /\ sigma.name = "knn" THEN
       IF k < Rows(D)
       THEN Vector([j \in 1..Cols(D) |-> TimesFac(knn_sigma(D, k)[j], fac)])
       ELSE Raise("IndexError")
  ELSE IF sigma.kind = "num" THEN
       Scalar(TimesFac(sigma.val, fac))
  ELSE IF sigma.kind = "callable" THEN
       Scalar(TimesFac(SeqMax([i \in 1..Rows(D) |-> SeqMax(D[i])]), fac))
  ELSE \* a string that is no name: 'bogus' * fac
       Raise("TypeError")

\* np.power(r, a) of a ratio r >= 0, kept within the range where exp(-x)
\* is not yet 0 at the model's resolution.
AlphaPow(r, a) ==
  IF a = 1 THEN r
  ELSE IF r >= 4 * Scale THEN 10 * Scale
  ELSE (r * r) \div Scale

\* One entry of np.exp(-np.power(np.divide(D, sigma), a)), a >= 1.
kernel_entry(d, s, a) ==
  IF s = NaN THEN NaN
  ELSE IF s = 0 THEN (IF d = 0 THEN NaN ELSE 0)
  ELSE IF s >= Huge THEN Scale
  ELSE ExpNeg(AlphaPow(Min2((d * Scale) \div s, 10 * Scale), a))

\* The bandwidth of column j: np.divide(D, sigma) broadcasts a vector sigma
\* along the columns.
sigma_of(sig, j) == IF sig.shape = "scalar" THEN sig.val[1] ELSE sig.val[j]

kernel_raw(D, sig, a) ==
  [i \in 1..Rows(D) |-> [j \in 1..Cols(D) |->
     kernel_entry(D[i][j], sigma_of(sig, j), a)]]

\* The noise floor 1e-3.
Floor == Scale \div 1000

\* K[np.isnan(K)] = 0; K[np.where(K < 1e-3)] = 0.
zero_small(K) ==
  [i \in 1..Rows(K) |-> [j \in 1..Cols(K) |->
     IF K[i][j] = NaN \/ K[i][j] < Floor THEN 0 ELSE K[i][j]]]

symmetrize_skipped(K) == K

\* if K.shape[0] == K.shape[1]: K = (K + K.T) / 2.
symmetrize(K) ==
  IF Rows(K) = Cols(K)
  THEN [i \in 1..Rows(K) |-> [j \in 1..Cols(K) |-> (K[i][j] + K[j][i]) \div 2]]
  ELSE K

\* gauss_kernel, lines 172-181.
kernel_of(D, sig, a) == symmetrize(zero_small(kernel_raw(D, sig, a)))

\* gauss_kernel as a whole: the kernel and the resolved bandwidth, or the
\* error raised.
gauss_kernel(d1, d2, sigma, k, a, fac) ==
  IF ~is_known(sigma) THEN [err |-> "ValueError", K |-> << >>, sigma |-> Raise("ValueError")]
  ELSE LET D  == cdist(d1, d2)
           bw == resolve_sigma(D, sigma, k, fac)
       IN  IF bw.err # "none" THEN [err |-> bw.err, K |-> << >>, sigma |-> bw]
           ELSE [err |-> "none", K |-> kernel_of(D, bw, a), sigma |-> bw]

\* p = np.sum(K, axis=0).
col_sums(K) == [j \in 1..Cols(K) |-> SeqSum(Column(K, j))]

\* degrees, line 241: N = data.shape[1].
degrees_N(data) == Len(data[1])

\* degrees, line 246: d_hat = (p * N) / np.sum(p); 0 / 0 is NaN.
degree_of(p, N) ==
  [i \in 1..Len(p) |->
     IF SeqSum(p) = 0 THEN NaN ELSE (p[i] * N * Scale) \div SeqSum(p)]

\* degrees, line 247: s_hat = np.divide(1, d_hat); 1 / 0 is inf.
sparsity_of(d) ==
  [i \in 1..Len(d) |->
     IF d[i] = NaN THEN NaN
     ELSE IF d[i] = 0 THEN Huge
     ELSE (Scale * Scale) \div d[i]]

\* degrees as a whole.
degrees(data, sigma, k, a, fac) ==
  IF ~is_known(sigma)
  THEN [err |-> "ValueError", d_hat |-> << >>, s_hat |-> << >>, sigma |-> Raise("ValueError")]
  ELSE LET g == gauss_kernel(data, data, sigma, k, a, fac)
           d == degree_of(col_sums(g.K), degrees_N(data))
       IN  IF g.err # "none"
           THEN [err |-> g.err, d_hat |-> << >>, s_hat |-> << >>, sigma |-> g.sigma]
           ELSE [err |-> "none", d_hat |-> d, s_hat |-> sparsity_of(d), sigma |-> g.sigma]

\* ------------------------------------------------------------------------
\* numpts
\* ------------------------------------------------------------------------

\* The noise model: one scalar, or one D x D covariance matrix per point.
NoiseScalar(v) == [kind |-> "scalar", val |-> v, cov |-> << >>]

NoiseMatrices(c) == [kind |-> "matrices", val |-> 0, cov |-> c]

\* x ** 2 of a fixed-point real.
Square(x) == MulFx(x, x)

\* x ** (dim / 2) of a fixed-point real x >= 0.
RECURSIVE PowHalf(_, _)
PowHalf(x, dim) ==
  IF dim = 0 THEN Scale
  ELSE IF dim = 1 THEN SqrtFx(x)
  ELSE MulFx(x, PowHalf(x, dim - 2))

\* The matrix m without row 1 and column j.
Minor(m, j) ==
  [r \in 1..(Len(m) - 1) |-> [c \in 1..(Len(m) - 1) |->
     m[r + 1][IF c < j THEN c ELSE c + 1]]]

\* np.linalg.det of a square fixed-point matrix, by expansion along row 1.
RECURSIVE Det(_)
Det(m) ==
  IF Len(m) = 1 THEN m[1][1]
  ELSE SeqSum([j \in 1..Len(m) |->
         (IF j % 2 = 1 THEN 1 ELSE 0 - 1) * MulFx(Det(Minor(m, j)), m[1][j])])

\* np.eye(*c.shape) + np.divide(c, 2 * np.power(sig, 2)), sig > 0.
eye_plus(c, sig) ==
  [r \in 1..Len(c) |-> [q \in 1..Len(c) |->
     (IF r = q THEN Scale ELSE 0) + (c[r][q] * Scale) \div (2 * Square(sig))]]

\* numpts, lines 370-371: the equalization factor of point i under a scalar
\* noise covariance, noise_cov > 0.
scalar_factor(sig, nc, dim) ==
  PowHalf(((Square(sig) + Square(nc)) * Scale) \div (2 * Square(nc)), dim)

\* numpts, lines 381-384: the equalization factor of point i under its own
\* covariance matrix.
matrix_factor(sig, c) == SqrtFx(Det(eye_plus(c, sig)))

\* numpts, lines 367-384 and 409: number_estimate before any rescaling.
number_estimate(degree, noise_cov, kernel_sigma, dim, equalize) ==
  LET const == SeqMax(degree)
  IN  [i \in 1..Len(degree) |->
        IF ~equalize THEN const - degree[i]
        ELSE IF noise_cov.kind = "scalar"
        THEN MulFx(const - degree[i],
                   scalar_factor(sigma_of(kernel_sigma, i), noise_cov.val, dim))
        ELSE MulFx(const - degree[i],
                   matrix_factor(sigma_of(kernel_sigma, i), noise_cov.cov[i]))]

floor_unscaled(ne, m) == [i \in 1..Len(ne) |-> ne[i] \div Scale]

\* np.floor((number_estimate * M) / (np.sum(number_estimate) + 1e-17)):
\* with no mass at all the guard makes every quotient 0 / 1e-17 = 0.
floor_scaled(ne, m) ==
  [i \in 1..Len(ne) |->
     IF SeqSum(ne) = 0 THEN 0 ELSE (ne[i] * m) \div SeqSum(ne)]

\* np.floor(number_estimate).
floor_plain(ne) == [i \in 1..Len(ne) |-> ne[i] \div Scale]

\* numpts, lines 405-407: if not bool(M): M = N.
effective_M(m, N) == IF m = 0 THEN N ELSE m

\* numpts, lines 362-412: the floored budget before the final checks.
floored_budget(degree, noise_cov, kernel_sigma, dim, m, equalize) ==
  LET ne == number_estimate(degree, noise_cov, kernel_sigma, dim, equalize)
  IN  IF equalize
      THEN (IF m # 0 THEN floor_scaled(ne, m) ELSE floor_plain(ne))
      ELSE floor_scaled(ne, effective_M(m, Len(degree)))

\* numpts, lines 391-396: M / number_sum < 1e-1 (x / 0 is +-inf).
under_constrained(ne, m) ==
  IF SeqSum(ne) = 0 THEN m < 0 ELSE 10 * m * Scale < SeqSum(ne)

\* The warning of line 396.
estimate_warnings(degree, noise_cov, kernel_sigma, dim, m, equalize) ==
  IF equalize /\ m # 0
       /\ under_constrained(number_estimate(degree, noise_cov, kernel_sigma, dim, equalize), m)
  THEN { "increased M suggested" } ELSE { }

\* The sanity threshold 10**4 of line 419.
TooMany == 10 ^ 4

checked_budget_no_fallback(b) == b

\* numpts, lines 414-422: a budget that sums to zero becomes all ones.
checked_budget(b) ==
  IF SeqSum(b) = 0 THEN [i \in 1..Len(b) |-> 1] ELSE b

\* The warnings of lines 415 and 420 (emitted when a logger is given).
budget_warnings(b) ==
  IF SeqSum(b) = 0 THEN { "estimate < 0" }
  ELSE IF SeqSum(b) > TooMany THEN { "estimate > 1e4" }
  ELSE { }

\* numpts as a whole.
numpts(degree, noise_cov, kernel_sigma, dim, m, equalize) ==
  checked_budget(floored_budget(degree, noise_cov, kernel_sigma, dim, m, equalize))

\* ------------------------------------------------------------------------
\* matlab_percentile, magic
\* ------------------------------------------------------------------------

\* np.interp(x, xp, fp, left=fp[0], right=fp[-1]) for ascending xp; x and xp
\* are in units of 1 / (2 * Len(xp)) percent.
RECURSIVE interp(_, _, _, _)
interp(x, xp, fp, i) ==
  IF x <= xp[1] THEN fp[1]
  ELSE IF x >= xp[Len(xp)] THEN fp[Len(fp)]
  ELSE IF x > xp[i + 1] THEN interp(x, xp, fp, i + 1)
  ELSE fp[i] + ((fp[i + 1] - fp[i]) * (x - xp[i])) \div (xp[i + 1] - xp[i])

\* matlab_percentile(in_data, q) for a whole q: p_rank[i] is
\* 100 * (i + 0.5) / n, here times 2 * n.
matlab_percentile(in_data, q) ==
  LET n == Len(in_data)
  IN  interp(2 * n * q, [i \in 1..n |-> 100 * (2 * i - 1)], Sort(in_data), 1)

\* A reciprocal 1 / r kept as the fraction num / den; den = 0 is inf.
Recip(r) == [num |-> 1, den |-> r]

FracZero == [num |-> 0, den |-> 1]

IsInf(f) == f.den = 0 /\ f.num # 0

\* The product of a reciprocal and a finite fixed-point value x >= 0:
\* inf * 0 is NaN.
FracTimes(f, x) ==
  IF f.den = 0 THEN (IF x = 0 THEN NaN ELSE Huge)
  ELSE IF f.num = 0 THEN 0
  ELSE TimesScaleOver(x, f.den)

row_sums(kernel) == [i \in 1..Rows(kernel) |-> SeqSum(kernel[i])]

\* magic, lines 590-592: the diagonal of np.diag(np.sum(kernel, axis=1) ** -1).
diffusion_degree(kernel) == [i \in 1..Rows(kernel) |-> Recip(row_sums(kernel)[i])]

zero_inf_skipped(d) == d

\* magic, line 593: diffusion_degree[np.isinf(diffusion_degree)] = 0.
zero_inf(d) == [i \in 1..Len(d) |-> IF IsInf(d[i]) THEN FracZero ELSE d[i]]

\* magic, line 594: diffusion_degree @ kernel for a diagonal left factor
\* and a finite kernel (the terms off the diagonal are 0 * kernel[l][j] = 0).
diffusion_operator(kernel) ==
  LET d == zero_inf(diffusion_degree(kernel))
  IN  [i \in 1..Rows(kernel) |-> [j \in 1..Cols(kernel) |-> FracTimes(d[i], kernel[i][j])]]

\* x * y of two fixed-point values, either of which may be NaN.
TimesFx(x, y) == IF x = NaN \/ y = NaN THEN NaN ELSE MulFx(x, y)

SumFx(s) == IF \E i \in 1..Len(s) : s[i] = NaN THEN NaN ELSE SeqSum(s)

\* A @ B.
matmul(A, B) ==
  [i \in 1..Rows(A) |-> [j \in 1..Cols(B) |->
     SumFx([l \in 1..Cols(A) |-> TimesFx(A[i][l], B[l][j])])]]

\* magic, lines 598-600: the operator applied t times.
RECURSIVE diffuse(_, _, _)
diffuse(op, x, t) == IF t <= 0 THEN x ELSE diffuse(op, matmul(op, x), t - 1)

\* x * (p / q), the quotient first: 0 / 0 is NaN, p / 0 is inf, inf * 0
\* is NaN.
rescale_entry(x, p, q) ==
  IF x = NaN \/ p = NaN \/ q = NaN THEN NaN
  ELSE IF q = 0 THEN (IF p = 0 \/ x = 0 THEN NaN ELSE Huge)
  ELSE IF (p < 0) = (q < 0) THEN MulFx(x, TimesScaleOver(Abs(p), Abs(q)))
  ELSE MulFx(0 - x, TimesScaleOver(Abs(p), Abs(q)))

\* np.apply_along_axis(matlab_percentile, 0, x, 95).  np.sort puts a NaN
\* last, and with fewer than ten rows the 95th percentile is the last
\* sorted value: a column that holds a NaN yields NaN.
percentile95(x) ==
  [c \in 1..Cols(x) |->
     IF \E i \in 1..Rows(x) : x[i][c] = NaN THEN NaN
     ELSE matlab_percentile(Column(x, c), 95)]

\* magic, lines 603-611.
rescaled(x, imputed) ==
  [i \in 1..Rows(imputed) |-> [c \in 1..Cols(imputed) |->
     rescale_entry(imputed[i][c], percentile95(x)[c], percentile95(imputed)[c])]]

\* magic, lines 582-588: the data as oriented for the kernel.
oriented(x, kernel) ==
  IF Rows(x) # Rows(kernel) /\ Cols(x) = Rows(kernel) THEN Transpose(x) ELSE x

\* magic as a whole: operator @ data raises ValueError when the data has
\* not as many rows as the kernel has columns.
magic(x, kernel, t, rescale) ==
  LET y   == oriented(x, kernel)
      op  == diffusion_operator(kernel)
      imp == diffuse(op, y, t)
  IN  IF t > 0 /\ Rows(y) # Cols(kernel)
      THEN [err |-> "ValueError", data_imputed |-> << >>, diffusion_operator |-> << >>]
      ELSE [err |-> "none",
            data_imputed |-> IF rescale THEN rescaled(y, imp) ELSE imp,
            diffusion_operator |-> op]

\* magic, lines 582-612: the arguments whose memory the returned data_imputed
\* shares.  data_imputed = data (line 596) names the argument, or the view
\* data.T of it (line 586); only a product of the loop (line 600) or the
\* rescaling (line 605) binds the name to a new array.
magic_shares(arg, t, rescale) == IF t = 0 /\ ~rescale THEN { arg } ELSE { }

\* ------------------------------------------------------------------------
\* generate
\* ------------------------------------------------------------------------

\* n copies of x in a row.
Copies(x, n) == [j \in 1..n |-> x]

RECURSIVE Flatten(_)
Flatten(ss) == IF ss = << >> THEN << >> ELSE Head(ss) \o Flatten(Tail(ss))

\* generate, lines 484-486, 492-493 and 502: np.hstack of the D x npts[i]
\* blocks np.tile(row.reshape(-1, 1), (1, npts[i])), read row by row of its
\* transpose: npts[i] copies of data[i], in the order of i.
rep_centers_of(data, npts) ==
  Flatten([i \in 1..Len(data) |-> Copies(data[i], npts[i])])

\* generate, line 497: np.tile(c, (n)).reshape(-1, D, D).  np.tile puts n
\* copies of the D x D matrix c side by side (D rows of D * n values); the
\* reshape cuts that, read row by row, into n matrices of D x D.
tile_reshape(c, n) ==
  LET d == Len(c)
  IN  [j \in 1..n |-> [r \in 1..d |-> [q \in 1..d |->
         LET f == (j - 1) * d * d + (r - 1) * d + (q - 1)
         IN  c[(f \div (d * n)) + 1][((f % (d * n)) % d) + 1]]]]

\* generate, lines 495-501: np.vstack of the replicated covariances.
rep_cov_of(noise_cov, npts) ==
  Flatten([i \in 1..Len(npts) |-> tile_reshape(noise_cov.cov[i], npts[i])])

\* generate, lines 466, 475-477 and 487-489: labels_out = [labels_out,
\* new_labels] nests the list built so far in a new list of two.  A Python
\* value is a record: a label (kind "label", the label in val), or a list or
\* array (kind "list", the elements in items).
RECURSIVE labels_out_of(_, _, _)
labels_out_of(labels, npts, i) ==
  IF labels = << >> \/ i = 0 THEN [kind |-> "list", val |-> 0, items |-> << >>]
  ELSE [kind |-> "list", val |-> 0, items |->
         << labels_out_of(labels, npts, i - 1),
            [kind |-> "list", val |-> 0, items |->
               Copies([kind |-> "label", val |-> labels[i], items |-> << >>], npts[i])] >>]

\* The error generate raises before it draws any point, "none" if it
\* draws.  np.tile raises ValueError for a negative count; with a scalar
\* noise_cov line 480 reads rep_centers.T of a list (AttributeError); with
\* covariance matrices np.vstack raises ValueError for an empty list.
generate_error(data, npts, noise_cov) ==
  IF \E i \in 1..Len(data) : npts[i] < 0 THEN "ValueError"
  ELSE IF noise_cov.kind = "scalar" THEN "AttributeError"
  ELSE IF SeqSum(npts) = 0 THEN "ValueError"
  ELSE "none"

\* What np.random.multivariate_normal(row, cov) may add to row: nothing
\* along a coordinate without variance; the model draws a step of 1.0
\* along the first coordinate, one way or the other.
Offsets(cov) ==
  LET d == Len(cov)
  IN  IF cov[1][1] = 0 THEN { [c \in 1..d |-> 0] }
      ELSE { [c \in 1..d |-> IF c = 1 THEN Scale ELSE 0],
             [c \in 1..d |-> IF c = 1 THEN 0 - Scale ELSE 0] }

\* The point sets the loop of lines 507-510 may produce from the centers
\* cs and the covariances cv (from row i on).
RECURSIVE Draws(_, _, _)
Draws(cs, cv, i) ==
  IF i > Len(cs) THEN { << >> }
  ELSE { << [c \in 1..Len(o) |-> cs[i][c] + o[c]] >> \o rest :
           o \in Offsets(cv[i]), rest \in Draws(cs, cv, i + 1) }

\* ------------------------------------------------------------------------
\* local_covariance
\* ------------------------------------------------------------------------

\* The indices 1..n in the order of their distance to the point at index
\* i (equal distances in the order of the index).
RECURSIVE InsertBy(_, _, _)
InsertBy(j, s, key) ==
  IF s = << >> THEN << j >>
  ELSE IF key[j] < key[Head(s)] THEN << j >> \o s
  ELSE << Head(s) >> \o InsertBy(j, Tail(s), key)

RECURSIVE SortBy(_, _)
SortBy(n, key) == IF n = 0 THEN << >> ELSE InsertBy(n, SortBy(n - 1, key), key)

\* local_covariance, line 288: neigh.kneighbors(row): the k nearest rows of
\* data, the row itself among them.
kneighbors(data, i, k) ==
  SubSeq(SortBy(Len(data), [j \in 1..Len(data) |-> Dist(data[i], data[j])]), 1, k)

\* local_covariance, line 290: np.cov(points, rowvar=False), the unbiased
\* estimate; NaN for a single point.
cov_of(pts) ==
  LET n    == Len(pts)
      d    == Len(pts[1])
      mean == [c \in 1..d |-> SeqSum([j \in 1..n |-> pts[j][c]]) \div n]
  IN  [r \in 1..d |-> [q \in 1..d |->
        IF n = 1 THEN NaN
        ELSE SeqSum([j \in 1..n |->
               ((pts[j][r] - mean[r]) * (pts[j][q] - mean[q])) \div Scale]) \div (n - 1)]]

\* local_covariance as a whole, for data of two or more columns:
\* NearestNeighbors raises ValueError for k < 1 and for k beyond the number
\* of rows.
local_covariance(data, k) ==
  IF k < 1 \/ k > Len(data) THEN [err |-> "ValueError", cov |-> << >>]
  ELSE [err |-> "none",
        cov |-> [i \in 1..Len(data) |->
                  cov_of([j \in 1..k |-> data[kneighbors(data, i, k)[j]]])]]

\* ------------------------------------------------------------------------
\* mgc_magic
\* ------------------------------------------------------------------------

\* mgc_magic, line 694: np.multiply(new_to_old, s_hat), s_hat along the
\* columns; s_hat finite.
times_sparsity(kern, s) ==
  [i \in 1..Rows(kern) |-> [j \in 1..Cols(kern) |-> TimesFx(kern[i][j], s[j])]]

\* mgc_magic, lines 699-700: the product, averaged with its transpose.
mgc_kernel_of(new_to_old, old_to_new, s) ==
  LET m == matmul(times_sparsity(new_to_old, s), old_to_new)
  IN  [i \in 1..Rows(m) |-> [j \in 1..Cols(m) |-> (m[i][j] + m[j][i]) \div 2]]

\* mgc_magic as a whole (lines 687-703); t = 0 only sets new_data and
\* warns, the code below it runs all the same.
mgc_magic(X, Y, s, sig, kk, aa, ff, tt, magic_rescale) ==
  LET nto == gauss_kernel(Y, X, sig, kk, aa, ff)
      otn == gauss_kernel(X, Y, sig, kk, aa, ff)
      mk  == mgc_kernel_of(nto.K, otn.K, s)
      m   == magic(Y, mk, tt, magic_rescale)
  IN  IF nto.err # "none"
      THEN [err |-> nto.err, new_data |-> << >>, mgc_kernel |-> << >>,
            mgc_diffusion_operator |-> << >>]
      ELSE IF otn.err # "none"
      THEN [err |-> otn.err, new_data |-> << >>, mgc_kernel |-> << >>,
            mgc_diffusion_operator |-> << >>]
      ELSE [err |-> m.err, new_data |-> m.data_imputed, mgc_kernel |-> mk,
            mgc_diffusion_operator |-> m.diffusion_operator]

\* ------------------------------------------------------------------------
\* State
\* ------------------------------------------------------------------------

VARIABLES
  entry,    \* the function that was called: "gauss_kernel", "degrees", ...
  pc,       \* the line the call has reached, "done" or "raised"
  err,      \* the exception raised, "none" while there is none
  data1,    \* gauss_kernel's data1 (degrees' data)
  data2,    \* gauss_kernel's data2
  sigma,    \* the bandwidth specification
  k,        \* neighbour index of the 'knn' bandwidth
  a,        \* alpha-decay exponent
  fac,      \* bandwidth rescale factor
  D,        \* gauss_kernel's distance matrix, << >> until computed
  bw,       \* the resolved bandwidth (gauss_kernel's sigma after line 169)
  K,        \* the kernel, << >> until computed
  d_hat,    \* degrees' d_hat
  s_hat,    \* degrees' s_hat
  degree,        \* numpts' degree
  noise_cov,     \* numpts' / generate's noise_cov
  kernel_sigma,  \* numpts' kernel_sigma
  dim,           \* numpts' dim
  M,             \* numpts' M
  equalize,      \* numpts' equalize
  logger,        \* whether a logger was passed
  npts,          \* numpts' npts, << >> until computed
  log,           \* the warnings sent to the logger
  points,        \* magic's data (mgc_magic's Y)
  kernel,        \* magic's kernel
  t,             \* magic's t
  rescale,       \* magic's rescale
  data_imputed,        \* magic's first result
  diffusion_op,        \* magic's second result, the diffusion operator
  data,          \* generate's / sugar's data
  labels,        \* generate's / sugar's labels, << >> for none
  rep_centers,   \* generate's rep_centers, one row per point to draw
  rep_cov,       \* generate's rep_cov, one matrix per point to draw
  random_points, \* generate's random_points
  labels_out,    \* generate's labels_out (sugar's out_labels)
  args,          \* sugar's keyword arguments as passed
  trace,         \* the functions sugar has called, in the order of the calls
  bound,         \* the local names of sugar that are bound
  Y,             \* sugar's Y
  mgc_kernel,    \* sugar's mgc_kernel
  shares         \* the arguments whose memory a returned array shares

kvars == << data1, data2, sigma, k, a, fac, D, bw, K, d_hat, s_hat >>

nvars == << degree, noise_cov, kernel_sigma, dim, M, equalize, logger, npts, log >>

mvars == << points, kernel, t, rescale, data_imputed, diffusion_op >>

gvars == << data, labels, rep_centers, rep_cov, random_points, labels_out >>

svars == << args, trace, bound, Y, mgc_kernel >>

vars == << entry, pc, err, kvars, nvars, mvars, gvars, svars, shares >>

\* ------------------------------------------------------------------------
\* Inputs
\* ------------------------------------------------------------------------

\* The points of dimension d the data sets are drawn from.
PointsOfDim(d) ==
  IF d = 1 THEN { << 0 >>, << Scale >>, << 3 * Scale >> }
  ELSE { << 0, 0 >>, << Scale, 2 * Scale >> }

Dims == { 1, 2 }

\* The point sets of at most n rows of dimension d.
PointSets(n, d) == UNION { [1..m -> PointsOfDim(d)] : m \in 1..n }

SigmaSpecs ==
  { SigmaName(n) : n \in VALID_SIGMAS \cup { "bogus" } }
    \cup { SigmaNum(v) : v \in { 0, Scale \div 2, (8 * Scale) \div 10, 2 * Scale } }
    \cup { SigmaCallable }

\* k as given with sigma = 'knn'; the default k = 5 otherwise.
KsOf(s) == IF s.kind = "str" /\ s.name = "knn" THEN { 1, 2 } ELSE { 5 }

\* The pairs (a, fac): the Gaussian kernel a = 2 with and without a
\* rescaled bandwidth, and the exponential kernel a = 1.
AlphaFacs == { << 2, 1 >>, << 1, 1 >>, << 2, 2 >> }

\* ------------------------------------------------------------------------
\* gauss_kernel and degrees, line by line
\* ------------------------------------------------------------------------

\* The variables of a function that is not running.
KernelIdle ==
  /\ data1 = << >> /\ data2 = << >> /\ sigma = SigmaName("std")
  /\ k = 5 /\ a = 2 /\ fac = 1
  /\ D = << >> /\ bw = Raise("none") /\ K = << >>
  /\ d_hat = << >> /\ s_hat = << >>

NumptsIdle ==
  /\ degree = << >> /\ noise_cov = NoiseScalar(Scale) /\ kernel_sigma = Scalar(Scale)
  /\ dim = 0 /\ M = 0 /\ equalize = FALSE /\ logger = FALSE
  /\ npts = << >> /\ log = { }

MagicIdle ==
  /\ points = << >> /\ kernel = << >> /\ t = 0 /\ rescale = FALSE
  /\ data_imputed = << >> /\ diffusion_op = << >>

GenerateIdle ==
  /\ data = << >> /\ labels = << >> /\ rep_centers = << >> /\ rep_cov = << >>
  /\ random_points = << >> /\ labels_out = << >>

SugarIdle ==
  /\ args = << >> /\ trace = << >> /\ bound = { } /\ Y = << >> /\ mgc_kernel = << >>

InitKernel ==
  /\ NumptsIdle /\ MagicIdle /\ GenerateIdle /\ SugarIdle
  /\ entry \in { "gauss_kernel", "degrees" }
  /\ shares = { }
  /\ pc = (IF entry = "degrees" THEN "deg_validate" ELSE "gk_validate")
  /\ err = "none"
  /\ \E d \in Dims :
       /\ data1 \in PointSets(MaxN, d)
       /\ data2 \in (IF entry = "degrees" THEN { data1 }
                     ELSE { data1 } \cup PointSets(MaxM, d))
  /\ sigma \in SigmaSpecs
  /\ k \in KsOf(sigma)
  /\ \E af \in AlphaFacs : a = af[1] /\ fac = af[2]
  /\ D = << >>
  /\ bw = Raise("none")
  /\ K = << >>
  /\ d_hat = << >>
  /\ s_hat = << >>

\* degrees, line 240: validate_sigma(sigma, logger).
deg_validate ==
  /\ pc = "deg_validate"
  /\ pc' = (IF is_known(sigma) THEN "gk_validate" ELSE "raised")
  /\ err' = (IF is_known(sigma) THEN err ELSE "ValueError")
  /\ UNCHANGED << entry, shares, svars, kvars, nvars, mvars, gvars >>

\* gauss_kernel, line 133: validate_sigma(sigma, logger).
gk_validate ==
  /\ pc = "gk_validate"
  /\ pc' = (IF is_known(sigma) THEN "gk_cdist" ELSE "raised")
  /\ err' = (IF is_known(sigma) THEN err ELSE "ValueError")
  /\ UNCHANGED << entry, shares, svars, kvars, nvars, mvars, gvars >>

\* gauss_kernel, line 135: D = cdist(data1, data2).
gk_cdist ==
  /\ pc = "gk_cdist"
  /\ D' = cdist(data1, data2)
  /\ pc' = "gk_sigma"
  /\ UNCHANGED << entry, shares, svars, err, data1, data2, sigma, k, a, fac, bw, K, d_hat, s_hat, nvars, mvars, gvars >>

\* gauss_kernel, lines 140-169: the bandwidth is resolved and rescaled.
gk_sigma ==
  /\ pc = "gk_sigma"
  /\ bw' = resolve_sigma(D, sigma, k, fac)
  /\ err' = bw'.err
  /\ pc' = (IF bw'.err = "none" THEN "gk_kernel" ELSE "raised")
  /\ UNCHANGED << entry, shares, svars, data1, data2, sigma, k, a, fac, D, K, d_hat, s_hat, nvars, mvars, gvars >>

\* gauss_kernel, lines 172-181: the kernel is computed and returned.
gk_kernel ==
  /\ pc = "gk_kernel"
  /\ K' = kernel_of(D, bw, a)
  /\ pc' = (IF entry = "degrees" THEN "deg_degree" ELSE "done")
  /\ shares' = { }
  /\ UNCHANGED << entry, svars, err, data1, data2, sigma, k, a, fac, D, bw, d_hat, s_hat, nvars, mvars, gvars >>

\* degrees, lines 241-248.
deg_degree ==
  /\ pc = "deg_degree"
  /\ d_hat' = degree_of(col_sums(K), degrees_N(data1))
  /\ s_hat' = sparsity_of(d_hat')
  /\ pc' = "done"
  /\ shares' = { }
  /\ UNCHANGED << entry, svars, err, data1, data2, sigma, k, a, fac, D, bw, K, nvars, mvars, gvars >>

NextKernel ==
  \/ deg_validate
  \/ gk_validate
  \/ gk_cdist
  \/ gk_sigma
  \/ gk_kernel
  \/ deg_degree

SpecKernel == InitKernel /\ [][NextKernel]_vars

\* ------------------------------------------------------------------------
\* Claims about gauss_kernel and degrees
\* ------------------------------------------------------------------------

\* C4: with a bandwidth specification that is no heuristic name, no callable
\* and no number ("bogus"), gauss_kernel and degrees raise ValueError, and
\* they do so before any distance is computed, any bandwidth resolved or any
\* kernel built: the call is either still at its validation line or has
\* raised.
C4_InvalidSigmaRaisesBeforeKernelWork ==
  sigma = SigmaName("bogus") =>
    /\ pc \in { "deg_validate", "gk_validate", "raised" }
    /\ pc = "raised" => err = "ValueError"
    /\ D = << >> /\ K = << >> /\ bw = Raise("none")

C4_Witness ==
  /\ sigma = SigmaName("bogus")
  /\ entry = "gauss_kernel"
  /\ pc = "raised"
  /\ err = "ValueError"

IsSymmetric(m) == \A i, j \in 1..Rows(m) : m[i][j] = m[j][i]

\* C5: the kernel gauss_kernel(data, data, ...) returns is symmetric and all
\* its entries lie in [0, 1], for scalar and for per-column bandwidths.
C5_SelfKernelSymmetricInUnitRange ==
  (pc \in { "deg_degree", "done" } /\ data1 = data2) =>
    /\ Rows(K) = Len(data1) /\ Cols(K) = Len(data1)
    /\ IsSymmetric(K)
    /\ \A i, j \in 1..Rows(K) : 0 <= K[i][j] /\ K[i][j] <= Scale

\* A self-kernel with a per-column bandwidth whose entries before the
\* averaging with the transpose were not symmetric.
C5_Witness ==
  /\ pc = "done"
  /\ data1 = data2
  /\ bw.shape = "vector"
  /\ ~IsSymmetric(zero_small(kernel_raw(D, bw, a)))
  /\ IsSymmetric(K)

\* C6: when the kernel mass is positive, degrees returns p * N / sum(p)
\* with N the number of rows of data: entries >= 0 that sum to N (up to one
\* unit of rounding per entry).
C6_DegreeSumsToRowCount ==
  (entry = "degrees" /\ pc = "done" /\ SeqSum(col_sums(K)) > 0) =>
    LET p == col_sums(K)
        N == Len(data1)
    IN  /\ Len(d_hat) = N
        /\ \A i \in 1..N : d_hat[i] = (p[i] * N * Scale) \div SeqSum(p)
        /\ \A i \in 1..N : d_hat[i] >= 0
        /\ Abs(SeqSum(d_hat) - N * Scale) <= N

\* The bandwidth the claim describes: 2 * v ** 2, v the largest of the
\* column minima of D with a very large constant on the diagonal.
MinmaxOf(dist) ==
  LET v == SeqMax([j \in 1..Cols(dist) |->
             SeqMin([i \in 1..Rows(dist) |-> IF i = j THEN Huge ELSE dist[i][j]])])
  IN  IF v >= Huge THEN Huge ELSE TwoSquare(v)

\* C16: for point sets of any two sizes, gauss_kernel with sigma = 'minmax'
\* does not raise, and the bandwidth it resolves is the scalar 2 * v ** 2
\* (times fac).
C16_MinmaxResolvesForAnySizes ==
  (entry = "gauss_kernel" /\ sigma = SigmaName("minmax")) =>
    /\ pc # "raised"
    /\ pc \in { "gk_kernel", "done" } => bw = Scalar(TimesFac(MinmaxOf(D), fac))

\* C17: an entry of a kernel gauss_kernel returns is never NaN and never
\* strictly between 0 and the noise floor 1e-3.
C17_NoEntryBelowFloor ==
  (entry = "gauss_kernel" /\ pc = "done") =>
    \A i \in 1..Rows(K) : \A j \in 1..Cols(K) :
      K[i][j] # NaN /\ (K[i][j] = 0 \/ K[i][j] >= Floor)

\* ------------------------------------------------------------------------
\* numpts, step by step
\* ------------------------------------------------------------------------

DegreeValues == { 0, Scale \div 2, 2 * Scale }

Degrees == UNION { [1..n -> DegreeValues] : n \in 1..MaxN }

\* Covariance matrices (positive semi-definite) of dimension d.
CovsOfDim(d) ==
  IF d = 1 THEN { << << 0 >> >>, << << Scale >> >> }
  ELSE { << << Scale, 0 >>, << 0, Scale >> >>,
         << << Scale, Scale \div 2 >>, << Scale \div 2, Scale >> >> }

\* The requested totals: negative, absent, below and above the number of
\* points, and beyond the sanity threshold.
Ms == { 0 - 3, 0, 1, 4, TooMany + 10 }

KernelSigmas(n) == { Scalar(Scale), Vector([i \in 1..n |-> (i * Scale) \div 2]) }

InitNumpts ==
  /\ KernelIdle /\ MagicIdle /\ GenerateIdle /\ SugarIdle
  /\ entry = "numpts"
  /\ shares = { }
  /\ pc = "np_estimate"
  /\ err = "none"
  /\ degree \in Degrees
  /\ equalize \in BOOLEAN
  /\ IF equalize
     THEN /\ \/ /\ noise_cov \in { NoiseScalar(Scale \div 2), NoiseScalar(Scale) }
                /\ dim \in Dims
             \/ /\ dim \in Dims
                /\ noise_cov \in { NoiseMatrices(c) : c \in [1..Len(degree) -> CovsOfDim(dim)] }
          /\ kernel_sigma \in KernelSigmas(Len(degree))
     ELSE \* the defaults: neither is read without equalization
          /\ noise_cov = NoiseScalar(Scale)
          /\ kernel_sigma = Scalar(Scale)
          /\ dim = 0
  /\ M \in Ms
  /\ logger \in BOOLEAN
  /\ npts = << >>
  /\ log = { }

\* numpts, lines 362-412: the estimate, rescaled to M and floored.
np_estimate ==
  /\ pc = "np_estimate"
  /\ npts' = floored_budget(degree, noise_cov, kernel_sigma, dim, M, equalize)
  /\ log' = (IF logger
             THEN log \cup estimate_warnings(degree, noise_cov, kernel_sigma, dim, M, equalize)
             ELSE log)
  /\ pc' = "np_check"
  /\ UNCHANGED << entry, shares, svars, err, kvars, mvars, gvars, degree, noise_cov, kernel_sigma, dim, M, equalize, logger >>

\* numpts, lines 414-422: the checks of the floored budget, and the return.
np_check ==
  /\ pc = "np_check"
  /\ npts' = checked_budget(npts)
  /\ log' = (IF logger THEN log \cup budget_warnings(npts) ELSE log)
  /\ pc' = "done"
  /\ shares' = { }
  /\ UNCHANGED << entry, svars, err, kvars, mvars, gvars, degree, noise_cov, kernel_sigma, dim, M, equalize, logger >>

NextNumpts == np_estimate \/ np_check

SpecNumpts == InitNumpts /\ [][NextNumpts]_vars

\* ------------------------------------------------------------------------
\* Claims about numpts
\* ------------------------------------------------------------------------

AllEqual(v) == \A i, j \in 1..Len(v) : v[i] = v[j]

Ones(n) == [i \in 1..n |-> 1]

C8_BudgetEntriesNonNegative ==
  (entry = "numpts" /\ pc = "done") =>
    \A i \in 1..Len(npts) : npts[i] \in Nat

\* C9: the final checks of numpts: a floored budget that sums to zero is
\* replaced by N ones (with a warning when a logger is there), one that
\* sums to more than 10,000 is returned as it is (with a warning when a
\* logger is there), and in neither case an error is raised.
C9_ZeroFallbackAndLargeBudgetKept ==
  [][ (entry = "numpts" /\ pc = "np_check") =>
        /\ SeqSum(npts) = 0 =>
             /\ npts' = Ones(Len(degree))
             /\ logger => "estimate < 0" \in log'
        /\ SeqSum(npts) > TooMany =>
             /\ npts' = npts
             /\ logger => "estimate > 1e4" \in log'
        /\ pc' = "done" /\ err' = "none" ]_vars

\* The fallback has happened: N ones were returned and the warning logged.
C9_Witness ==
  /\ entry = "numpts" /\ pc = "done"
  /\ "estimate < 0" \in log
  /\ npts = Ones(Len(degree))
  /\ Len(degree) > 1

\* A budget beyond the threshold has been returned (the other case of C9).
C9_LargeBudgetReturned ==
  /\ entry = "numpts" /\ pc = "done"
  /\ "estimate > 1e4" \in log
  /\ SeqSum(npts) > TooMany

\* ------------------------------------------------------------------------
\* magic, step by step
\* ------------------------------------------------------------------------

\* Largest number of rows of a kernel handed to magic.
MaxKernel == 2

\* Largest number of diffusion steps.
MaxT == 1

\* The rows a kernel of n columns is made of: no affinity at all, full
\* affinity to every point, equal and unequal partial affinities, and
\* affinity to one point only.
KernelRows(n) ==
  { [j \in 1..n |-> 0],
    [j \in 1..n |-> Scale],
    [j \in 1..n |-> 3 * (Scale \div 10)],
    [j \in 1..n |-> IF j % 2 = 1 THEN 3 * (Scale \div 10) ELSE Scale] }
    \cup { [j \in 1..n |-> IF j = i THEN Scale ELSE 0] : i \in 1..n }

Kernels == UNION { [1..n -> KernelRows(n)] : n \in 1..MaxKernel }

\* The data handed to magic with a kernel of n rows: n x 1 (a zero column
\* and a ramp), n x 2, 1 x n (to be transposed), and (n + 1) x 1 (matching
\* the kernel in neither direction, unless n = 1).
MagicData(n) ==
  { [i \in 1..n |-> << 0 >>],
    [i \in 1..n |-> << i * Scale >>],
    [i \in 1..n |-> << i * Scale, 0 >>],
    << [j \in 1..n |-> j * Scale] >>,
    [i \in 1..(n + 1) |-> << i * Scale >>] }

InitMagic ==
  /\ KernelIdle /\ NumptsIdle /\ GenerateIdle /\ SugarIdle
  /\ entry = "magic"
  /\ shares = { }
  /\ pc = "mg_operator"
  /\ err = "none"
  /\ kernel \in Kernels
  /\ points \in MagicData(Rows(kernel))
  /\ t \in 0..MaxT
  /\ rescale \in BOOLEAN
  /\ data_imputed = << >>
  /\ diffusion_op = << >>

\* magic, lines 582-594: the data is oriented and the operator built.
mg_operator ==
  /\ pc = "mg_operator"
  /\ diffusion_op' = diffusion_operator(kernel)
  /\ pc' = "mg_impute"
  /\ UNCHANGED << entry, shares, svars, err, kvars, nvars, gvars, points, kernel, t, rescale, data_imputed >>

\* magic, lines 596-612: the diffusion, the rescaling and the return.
mg_impute ==
  /\ pc = "mg_impute"
  /\ LET r == magic(points, kernel, t, rescale)
     IN  /\ err' = r.err
         /\ data_imputed' = r.data_imputed
         /\ pc' = (IF r.err = "none" THEN "done" ELSE "raised")
         /\ shares' = (IF r.err = "none" THEN magic_shares("data", t, rescale) ELSE { })
  /\ UNCHANGED << entry, svars, kvars, nvars, gvars, points, kernel, t, rescale, diffusion_op >>

NextMagic == mg_operator \/ mg_impute

SpecMagic == InitMagic /\ [][NextMagic]_vars

\* ------------------------------------------------------------------------
\* Claims about magic
\* ------------------------------------------------------------------------

\* C10: each row of the diffusion operator magic returns sums to 1 (up to
\* one unit of rounding per entry), except the rows of the kernel that sum
\* to 0: those are rows of zeros; no entry of the operator is inf or NaN.
C10_OperatorRowsSumToOneOrZero ==
  (entry = "magic" /\ pc \in { "mg_impute", "done" }) =>
    /\ Rows(diffusion_op) = Rows(kernel)
    /\ \A i \in 1..Rows(kernel) :
         /\ \A j \in 1..Cols(kernel) :
              diffusion_op[i][j] # NaN /\ 0 <= diffusion_op[i][j] /\ diffusion_op[i][j] < Huge
         /\ IF SeqSum(kernel[i]) = 0
            THEN \A j \in 1..Cols(kernel) : diffusion_op[i][j] = 0
            ELSE Abs(SeqSum(diffusion_op[i]) - Scale) <= Cols(kernel)

\* An operator returned for a kernel with a zero row and a row of unequal
\* positive entries.
C10_Witness ==
  /\ entry = "magic" /\ pc = "done"
  /\ \E i \in 1..Rows(kernel) : SeqSum(kernel[i]) = 0
  /\ \E i \in 1..Rows(kernel) :
       /\ \A j \in 1..Cols(kernel) : kernel[i][j] > 0
       /\ kernel[i][1] # kernel[i][2]

\* C11: magic called with t = 0 returns points equal to its input points,
\* in shape and in values, whether rescale is set or not, and also when a
\* column of the points has the 95th percentile 0.
C11_ZeroStepsReturnInput ==
  (entry = "magic" /\ t = 0) =>
    /\ pc # "raised"
    /\ pc = "done" => data_imputed = points

\* C18: after a call to gauss_kernel, degrees, numpts, generate, magic or
\* mgc_magic has returned, no returned array shares memory with an argument
\* of the call (magic with t = 0 and rescale false included), and no step
\* of such a call changes an array it was given.
C18_InputsKeptResultsFresh ==
  /\ []((entry \in { "gauss_kernel", "degrees", "numpts", "generate", "magic", "mgc_magic" }
          /\ pc = "done") => shares = { })
  /\ [][ /\ entry \in { "gauss_kernel", "degrees" } => UNCHANGED << data1, data2 >>
         /\ entry = "numpts" => UNCHANGED << degree, noise_cov, kernel_sigma >>
         /\ entry = "generate" => UNCHANGED << data, npts, noise_cov, labels >>
         /\ entry = "magic" => UNCHANGED << points, kernel >>
         /\ entry = "mgc_magic" => UNCHANGED << data, points, s_hat >> ]_vars

\* ------------------------------------------------------------------------
\* generate, step by step
\* ------------------------------------------------------------------------

\* Largest number of points a budget asks for in all.
MaxRows == 3

\* The data set of n rows of dimension d handed to generate: distinct rows.
GenData(n, d) == [i \in 1..n |-> [c \in 1..d |-> i * c * Scale]]

\* One covariance matrix per point, each different from the others and
\* from its own transpose's rows.
GenCov(n, d) ==
  [i \in 1..n |-> [r \in 1..d |-> [q \in 1..d |->
     IF r = q THEN (i + r) * Scale ELSE Scale \div 2]]]

\* The budgets of n entries that ask for at most MaxRows points.
Budgets(n) == { b \in [1..n -> 0..MaxRows] : SeqSum(b) <= MaxRows }

InitGenerate ==
  /\ KernelIdle /\ MagicIdle /\ SugarIdle
  /\ entry = "generate"
  /\ shares = { }
  /\ pc = "gen_replicate"
  /\ err = "none"
  /\ \E n \in 1..MaxN, d \in Dims :
       /\ data = GenData(n, d)
       /\ npts \in Budgets(n)
       /\ noise_cov \in { NoiseScalar(Scale), NoiseMatrices(GenCov(n, d)) }
       /\ labels \in { << >>, [i \in 1..n |-> 100 + i] }
  /\ degree = << >> /\ kernel_sigma = Scalar(Scale) /\ dim = 0 /\ M = 0
  /\ equalize = FALSE /\ logger = FALSE /\ log = { }
  /\ rep_centers = << >> /\ rep_cov = << >>
  /\ random_points = << >> /\ labels_out = << >>

\* generate, lines 464-502: the centers, covariances and labels are
\* replicated, or an error is raised.
gen_replicate ==
  /\ pc = "gen_replicate"
  /\ err' = generate_error(data, npts, noise_cov)
  /\ IF err' = "none"
     THEN /\ rep_centers' = rep_centers_of(data, npts)
          /\ rep_cov' = rep_cov_of(noise_cov, npts)
          /\ labels_out' = labels_out_of(labels, npts, Len(data))
          /\ pc' = "gen_draw"
     ELSE /\ UNCHANGED << rep_centers, rep_cov, labels_out >>
          /\ pc' = "raised"
  /\ UNCHANGED << entry, shares, svars, kvars, nvars, mvars, data, labels, random_points >>

\* generate, lines 507-510: one turn of the loop draws one point.
gen_draw ==
  /\ pc = "gen_draw"
  /\ Len(random_points) < Len(rep_centers)
  /\ LET i == Len(random_points) + 1
     IN  \E o \in Offsets(rep_cov[i]) :
           random_points' =
             Append(random_points, [c \in 1..Len(o) |-> rep_centers[i][c] + o[c]])
  /\ UNCHANGED << entry, shares, svars, pc, err, kvars, nvars, mvars, data, labels, rep_centers, rep_cov, labels_out >>

\* generate, lines 512-513: the loop is over, the points are returned.
gen_return ==
  /\ pc = "gen_draw"
  /\ Len(random_points) = Len(rep_centers)
  /\ pc' = "done"
  /\ shares' = { }
  /\ UNCHANGED << entry, svars, err, kvars, nvars, mvars, gvars >>

NextGenerate == gen_replicate \/ gen_draw \/ gen_return

SpecGenerate == InitGenerate /\ [][NextGenerate]_vars

\* ------------------------------------------------------------------------
\* Claims about generate
\* ------------------------------------------------------------------------

\* C3: for a scalar noise covariance as for one matrix per point, generate
\* returns sum(npts) rows; it never raises, in particular not when every
\* npts[i] is 0, where it returns no rows.
C3_GenerateReturnsSumBudgetRows ==
  entry = "generate" =>
    /\ pc # "raised"
    /\ pc = "done" => Len(random_points) = SeqSum(npts)

\* The number of rows generated for the source points before point i.
RECURSIVE RowsBefore(_, _)
RowsBefore(b, i) == IF i <= 1 THEN 0 ELSE RowsBefore(b, i - 1) + b[i - 1]

\* C14: with one covariance matrix per point, the rows generated come in
\* the order of the source points, and each of the npts[i] rows of source
\* point i is drawn with the center data[i] and, also for npts[i] >= 2,
\* with a covariance matrix equal to noise_cov[i].
C14_RowsDrawnWithOwnCovariance ==
  (entry = "generate" /\ noise_cov.kind = "matrices" /\ pc \in { "gen_draw", "done" }) =>
    \A i \in 1..Len(data) : \A j \in 1..npts[i] :
      /\ rep_centers[RowsBefore(npts, i) + j] = data[i]
      /\ rep_cov[RowsBefore(npts, i) + j] = noise_cov.cov[i]

\* C15: when labels are given, the labels generate returns are a sequence
\* of sum(npts) labels: npts[i] copies of labels[i] for each source point
\* i, in the order of the generated rows.
C15_LabelsFollowRows ==
  (entry = "generate" /\ labels # << >> /\ pc = "done") =>
    /\ Len(labels_out.items) = SeqSum(npts)
    /\ \A i \in 1..Len(data) : \A j \in 1..npts[i] :
         labels_out.items[RowsBefore(npts, i) + j]
           = [kind |-> "label", val |-> labels[i], items |-> << >>]

\* ------------------------------------------------------------------------
\* sugar
\* ------------------------------------------------------------------------

\* noise_cov = 'knn', sugar's default.
NoiseKnn == [kind |-> "knn", val |-> 0, cov |-> << >>]

\* The points the data sets of sugar are made of: two columns, no two
\* points at the same place, and three points or more, so that every
\* bandwidth is positive and every degree finite.
SugarPoints ==
  << << Scale, Scale >>, << 2 * Scale, Scale >>, << Scale, 3 * Scale >>,
     << 4 * Scale, 4 * Scale >>, << 5 * Scale, 2 * Scale >> >>

SugarData == { SubSeq(SugarPoints, 1, n) : n \in 3..MaxN }

\* The keyword arguments sugar is called with; degree_a, degree_fac, mgc_a
\* and mgc_fac keep their defaults, the neighbour counts are small enough
\* for the data sets.
SugarArgs ==
  [ noise_cov : { NoiseKnn, NoiseScalar(Scale) },
    noise_k : { 2 },
    degree_sigma : { SigmaName("std"), SigmaName("knn"), SigmaNum(Scale) },
    degree_k : { 1 }, degree_a : { 2 }, degree_fac : { 1 },
    M : { 0, MaxM },
    equalize : BOOLEAN,
    mgc_t : 0..MaxT,
    mgc_sigma : { SigmaName("knn"), SigmaNum(Scale) },
    mgc_k : { 1 }, mgc_a : { 2 }, mgc_fac : { 1 },
    magic_rescale : BOOLEAN ]

\* The names bound when sugar's body starts: its parameters.
SugarParameters ==
  { "data", "labels", "noise_cov", "noise_k", "sparsity_idx", "degree_sigma",
    "degree_k", "degree_a", "degree_fac", "M", "equalize", "mgc_t", "mgc_sigma",
    "mgc_k", "mgc_a", "mgc_fac", "magic_rescale", "suppress", "n_jobs", "logger" }

\* The names line 903 reads, in the order it reads them.
ReturnNames ==
  << "Y", "out_labels", "d_hat", "s_hat", "sigma", "noise", "npts",
     "random_points", "mgc_kernel", "mgc_diffusion_operator" >>

InitSugar ==
  /\ MagicIdle
  /\ entry = "sugar"
  /\ shares = { }
  /\ pc = "s_degrees"
  /\ err = "none"
  /\ data \in SugarData
  /\ labels \in { << >>, [i \in 1..Len(data) |-> 100 + i] }
  /\ args \in SugarArgs
  /\ trace = << >>
  /\ bound = SugarParameters
  /\ Y = << >> /\ mgc_kernel = << >>
  /\ data1 = << >> /\ data2 = << >> /\ sigma = args.degree_sigma
  /\ k = args.degree_k /\ a = args.degree_a /\ fac = args.degree_fac
  /\ D = << >> /\ bw = Raise("none") /\ K = << >>
  /\ d_hat = << >> /\ s_hat = << >>
  /\ degree = << >> /\ noise_cov = args.noise_cov /\ kernel_sigma = Scalar(Scale)
  /\ dim = 0 /\ M = args.M /\ equalize = args.equalize /\ logger = FALSE
  /\ npts = << >> /\ log = { }
  /\ rep_centers = << >> /\ rep_cov = << >>
  /\ random_points = << >> /\ labels_out = << >>

\* sugar, lines 855-871: dim is taken and degrees called.
s_degrees ==
  /\ pc = "s_degrees"
  /\ \E r \in { degrees(data, args.degree_sigma, args.degree_k, args.degree_a,
                         args.degree_fac) } :
         /\ err' = r.err
         /\ dim' = Len(data[1])
         /\ trace' = Append(trace, "degrees")
         /\ IF r.err = "none"
            THEN /\ d_hat' = r.d_hat
                 /\ s_hat' = r.s_hat
                 /\ bw' = r.sigma
                 /\ bound' = bound \cup { "dim", "d_hat", "s_hat" }
                 /\ pc' = "s_noise"
            ELSE /\ UNCHANGED << d_hat, s_hat, bw >>
                 /\ bound' = bound \cup { "dim" }
                 /\ pc' = "raised"
  /\ UNCHANGED << entry, shares, args, Y, mgc_kernel, data1, data2, sigma, k, a, fac, D, K,
                  degree, noise_cov, kernel_sigma, M, equalize, logger, npts, log,
                  mvars, gvars >>

\* sugar, lines 873-876: for noise_cov = 'knn' local_covariance is called
\* and its result bound to noise and to noise_cov.
s_noise ==
  /\ pc = "s_noise"
  /\ IF noise_cov = NoiseKnn
     THEN \E r \in { local_covariance(data, args.noise_k) } :
              /\ trace' = Append(trace, "local_covariance")
              /\ err' = r.err
              /\ IF r.err = "none"
                 THEN /\ noise_cov' = NoiseMatrices(r.cov)
                      /\ bound' = bound \cup { "noise" }
                      /\ pc' = "s_numpts"
                 ELSE /\ UNCHANGED << noise_cov, bound >>
                      /\ pc' = "raised"
     ELSE /\ pc' = "s_numpts"
          /\ UNCHANGED << trace, err, noise_cov, bound >>
  /\ UNCHANGED << entry, shares, args, Y, mgc_kernel, kvars, degree, kernel_sigma, dim, M,
                  equalize, logger, npts, log, mvars, gvars >>

\* sugar, lines 878-882: numpts is called with the degrees and the
\* bandwidth degrees returned.
s_numpts ==
  /\ pc = "s_numpts"
  /\ trace' = Append(trace, "numpts")
  /\ degree' = d_hat
  /\ kernel_sigma' = bw
  /\ npts' = numpts(d_hat, noise_cov, bw, dim, args.M, args.equalize)
  /\ bound' = bound \cup { "npts" }
  /\ pc' = "s_generate"
  /\ UNCHANGED << entry, shares, err, args, Y, mgc_kernel, kvars, noise_cov, dim, M, equalize,
                  logger, log, mvars, gvars >>

\* sugar, lines 884-885: generate is called.
s_generate ==
  /\ pc = "s_generate"
  /\ trace' = Append(trace, "generate")
  /\ err' = generate_error(data, npts, noise_cov)
  /\ IF err' = "none"
     THEN /\ rep_centers' = rep_centers_of(data, npts)
          /\ rep_cov' = rep_cov_of(noise_cov, npts)
          /\ random_points' \in Draws(rep_centers', rep_cov', 1)
          /\ labels_out' = labels_out_of(labels, npts, Len(data))
          /\ bound' = bound \cup { "random_points", "out_labels" }
          /\ pc' = "s_mgc"
     ELSE /\ UNCHANGED << rep_centers, rep_cov, random_points, labels_out, bound >>
          /\ pc' = "raised"
  /\ UNCHANGED << entry, shares, args, Y, mgc_kernel, kvars, nvars, mvars, data, labels >>

\* sugar, lines 887-901: for mgc_t > 0 mgc_magic is called, otherwise the
\* generated points are the result and the two mgc results are empty.
s_mgc ==
  /\ pc = "s_mgc"
  /\ IF args.mgc_t > 0
     THEN \E r \in { mgc_magic(data, random_points, s_hat, args.mgc_sigma, args.mgc_k,
                                args.mgc_a, args.mgc_fac, args.mgc_t, args.magic_rescale) } :
              /\ trace' = Append(trace, "mgc_magic")
              /\ err' = r.err
              /\ IF r.err = "none"
                 THEN /\ Y' = r.new_data
                      /\ mgc_kernel' = r.mgc_kernel
                      /\ diffusion_op' = r.mgc_diffusion_operator
                      /\ bound' = bound \cup { "Y", "mgc_kernel", "mgc_diffusion_operator" }
                      /\ pc' = "s_return"
                 ELSE /\ UNCHANGED << Y, mgc_kernel, diffusion_op, bound >>
                      /\ pc' = "raised"
     ELSE /\ Y' = random_points
          /\ mgc_kernel' = << >>
          /\ diffusion_op' = << >>
          /\ bound' = bound \cup { "Y", "mgc_kernel", "mgc_diffusion_operator" }
          /\ pc' = "s_return"
          /\ UNCHANGED << trace, err >>
  /\ UNCHANGED << entry, shares, args, kvars, nvars, gvars, points, kernel, t, rescale,
                  data_imputed >>

\* sugar, line 903: the ten names are read; the first that is not bound
\* raises NameError.
s_return ==
  /\ pc = "s_return"
  /\ IF \A i \in 1..Len(ReturnNames) : ReturnNames[i] \in bound
     THEN pc' = "done" /\ UNCHANGED err
     ELSE pc' = "raised" /\ err' = "NameError"
  /\ UNCHANGED << entry, shares, svars, kvars, nvars, mvars, gvars >>

NextSugar == s_degrees \/ s_noise \/ s_numpts \/ s_generate \/ s_mgc \/ s_return

SpecSugar == InitSugar /\ [][NextSugar]_vars

\* ------------------------------------------------------------------------
\* Claims about sugar
\* ------------------------------------------------------------------------

\* C1: a call of sugar with N x D data, a scalar or 'knn' noise_cov, a
\* supported degree bandwidth and mgc_t >= 0 never raises, and when it is
\* over every one of the ten names of the return statement is bound.
C1_SugarReturnsTenArtifacts ==
  entry = "sugar" =>
    /\ pc # "raised"
    /\ pc = "done" => \A i \in 1..Len(ReturnNames) : ReturnNames[i] \in bound

\* The stages in the order sugar has to call them.
StageOrder == << "degrees", "local_covariance", "numpts", "generate", "mgc_magic" >>

\* The position of stage f in StageOrder.
StageIndex(f) == CHOOSE i \in 1..Len(StageOrder) : StageOrder[i] = f

Called(f) == \E i \in 1..Len(trace) : trace[i] = f

\* C2: the calls of sugar come in the order degrees, local_covariance,
\* numpts, generate, mgc_magic; when the call is over, local_covariance
\* was called exactly if noise_cov was 'knn' and mgc_magic exactly if
\* mgc_t > 0, and for mgc_t not > 0 the final points are the generated
\* points and the mgc kernel and the diffusion operator are empty.
C2_StagesInOrderAndGated ==
  entry = "sugar" =>
    /\ \A i, j \in 1..Len(trace) : i < j => StageIndex(trace[i]) < StageIndex(trace[j])
    /\ pc \in { "done", "raised" } =>
         /\ Called("degrees") /\ Called("numpts") /\ Called("generate")
         /\ Called("local_covariance") <=> (args.noise_cov = NoiseKnn)
         /\ Called("mgc_magic") <=> (args.mgc_t > 0)
         /\ ~(args.mgc_t > 0) =>
              /\ "Y" \in bound /\ Y = random_points
              /\ mgc_kernel = << >> /\ diffusion_op = << >>

\* ------------------------------------------------------------------------
\* mgc_magic, step by step
\* ------------------------------------------------------------------------

\* data is X, points is Y, rescale is magic_rescale; K holds the kernels
\* built so far (new_to_old, then old_to_new), Y the result new_data and
\* trace the functions called.
InitMgc ==
  /\ entry = "mgc_magic"
  /\ shares = { }
  /\ pc = "mm_zero"
  /\ err = "none"
  /\ data \in { SubSeq(SugarPoints, 1, n) : n \in 2..MaxN }
  /\ \E m \in 1..MaxM :
       points \in [1..m -> { << 0, Scale >>, << 2 * Scale, 2 * Scale >> }]
  /\ s_hat \in { [i \in 1..Len(data) |-> Scale], [i \in 1..Len(data) |-> (i * Scale) \div 2] }
  /\ sigma \in { SigmaName("knn"), SigmaName("minmax"), SigmaNum(Scale) }
  /\ k = 1 /\ a = 2 /\ fac = 1
  /\ t \in 0..MaxT
  /\ rescale \in BOOLEAN
  /\ logger \in BOOLEAN
  /\ log = { }
  /\ data1 = << >> /\ data2 = << >> /\ D = << >> /\ bw = Raise("none")
  /\ K = << >> /\ d_hat = << >>
  /\ degree = << >> /\ noise_cov = NoiseScalar(Scale) /\ kernel_sigma = Scalar(Scale)
  /\ dim = 0 /\ M = 0 /\ equalize = FALSE /\ npts = << >>
  /\ labels = << >> /\ rep_centers = << >> /\ rep_cov = << >>
  /\ random_points = << >> /\ labels_out = << >>
  /\ kernel = << >> /\ data_imputed = << >> /\ diffusion_op = << >>
  /\ args = << >> /\ trace = << >> /\ bound = { } /\ Y = << >> /\ mgc_kernel = << >>

\* mgc_magic, lines 687-689: t == 0 binds new_data and, given a logger,
\* warns; nothing returns here.
mm_zero ==
  /\ pc = "mm_zero"
  /\ IF t = 0
     THEN /\ Y' = points
          /\ log' = (IF logger THEN { "no mgc_magic was performed" } ELSE { })
     ELSE UNCHANGED << Y, log >>
  /\ pc' = "mm_new_to_old"
  /\ UNCHANGED << entry, shares, err, args, trace, bound, mgc_kernel, kvars, mvars, gvars,
                  degree, noise_cov, kernel_sigma, dim, M, equalize, logger, npts >>

\* mgc_magic, line 690: the kernel from the new points to the old ones.
mm_new_to_old ==
  /\ pc = "mm_new_to_old"
  /\ trace' = Append(trace, "gauss_kernel")
  /\ \E g \in { gauss_kernel(points, data, sigma, k, a, fac) } :
       /\ err' = g.err
       /\ IF g.err = "none"
          THEN K' = << g.K >> /\ pc' = "mm_old_to_new"
          ELSE UNCHANGED K /\ pc' = "raised"
  /\ UNCHANGED << entry, shares, args, bound, Y, mgc_kernel, nvars, mvars, gvars,
                  data1, data2, sigma, k, a, fac, D, bw, d_hat, s_hat >>

\* mgc_magic, line 691: the kernel from the old points to the new ones.
mm_old_to_new ==
  /\ pc = "mm_old_to_new"
  /\ trace' = Append(trace, "gauss_kernel")
  /\ \E g \in { gauss_kernel(data, points, sigma, k, a, fac) } :
       /\ err' = g.err
       /\ IF g.err = "none"
          THEN K' = Append(K, g.K) /\ pc' = "mm_kernel"
          ELSE UNCHANGED K /\ pc' = "raised"
  /\ UNCHANGED << entry, shares, args, bound, Y, mgc_kernel, nvars, mvars, gvars,
                  data1, data2, sigma, k, a, fac, D, bw, d_hat, s_hat >>

\* mgc_magic, lines 693-700: the mgc kernel.
mm_kernel ==
  /\ pc = "mm_kernel"
  /\ mgc_kernel' = mgc_kernel_of(K[1], K[2], s_hat)
  /\ pc' = "mm_magic"
  /\ UNCHANGED << entry, shares, err, args, trace, bound, Y, kvars, nvars, mvars, gvars >>

\* mgc_magic, lines 702-703: magic is called, whatever t is, and its
\* results are returned with the mgc kernel.
mm_magic ==
  /\ pc = "mm_magic"
  /\ trace' = Append(trace, "magic")
  /\ \E m \in { magic(points, mgc_kernel, t, rescale) } :
       /\ err' = m.err
       /\ IF m.err = "none"
          THEN /\ Y' = m.data_imputed
               /\ diffusion_op' = m.diffusion_operator
               /\ shares' = magic_shares("Y", t, rescale)
               /\ pc' = "done"
          ELSE /\ UNCHANGED << Y, diffusion_op, shares >>
               /\ pc' = "raised"
  /\ UNCHANGED << entry, args, bound, mgc_kernel, kvars, nvars, gvars,
                  points, kernel, t, rescale, data_imputed >>

NextMgc == mm_zero \/ mm_new_to_old \/ mm_old_to_new \/ mm_kernel \/ mm_magic

SpecMgc == InitMgc /\ [][NextMgc]_vars

\* ------------------------------------------------------------------------
\* Claims about mgc_magic
\* ------------------------------------------------------------------------

\* C12: mgc_magic called with t = 0 builds no kernel and does not raise;
\* it warns that no diffusion was performed and returns Y unchanged with
\* an empty mgc kernel and an empty diffusion operator.
C12_ZeroStepsSkipKernels ==
  (entry = "mgc_magic" /\ t = 0) =>
    /\ ~Called("gauss_kernel")
    /\ pc # "raised"
    /\ pc = "done" =>
         /\ Y = points
         /\ mgc_kernel = << >> /\ diffusion_op = << >>
         /\ log # { }

\* ------------------------------------------------------------------------
\* local_covariance, step by step
\* ------------------------------------------------------------------------

\* k is the neighbourhood size; noise_cov holds local_cov, the covariances
\* appended so far.  No two different points of the data are equally far
\* from a third one.
InitLocalCov ==
  /\ MagicIdle /\ SugarIdle
  /\ entry = "local_covariance"
  /\ shares = { }
  /\ pc = "lc_fit"
  /\ err = "none"
  /\ \E n \in 1..MaxN : data \in [1..n -> { SugarPoints[i] : i \in 1..3 }]
  /\ k \in 0..(MaxN + 1)
  /\ noise_cov = NoiseMatrices(<< >>)
  /\ degree = << >> /\ kernel_sigma = Scalar(Scale) /\ dim = 0 /\ M = 0
  /\ equalize = FALSE /\ logger = FALSE /\ npts = << >> /\ log = { }
  /\ data1 = << >> /\ data2 = << >> /\ sigma = SigmaName("std")
  /\ a = 2 /\ fac = 1 /\ D = << >> /\ bw = Raise("none") /\ K = << >>
  /\ d_hat = << >> /\ s_hat = << >>
  /\ labels = << >> /\ rep_centers = << >> /\ rep_cov = << >>
  /\ random_points = << >> /\ labels_out = << >>

\* local_covariance, lines 284-286: the neighbour search is set up;
\* a neighbourhood size below 1 is refused.
lc_fit ==
  /\ pc = "lc_fit"
  /\ IF k < 1
     THEN err' = "ValueError" /\ pc' = "raised"
     ELSE pc' = "lc_row" /\ UNCHANGED err
  /\ UNCHANGED << entry, shares, svars, kvars, nvars, mvars, gvars >>

\* local_covariance, lines 287-290: one turn of the loop; kneighbors
\* refuses a neighbourhood size above the number of rows, otherwise the
\* covariance of the k nearest rows is appended.
lc_row ==
  /\ pc = "lc_row"
  /\ Len(noise_cov.cov) < Len(data)
  /\ IF k > Len(data)
     THEN err' = "ValueError" /\ pc' = "raised" /\ UNCHANGED noise_cov
     ELSE /\ LET i == Len(noise_cov.cov) + 1
             IN  noise_cov' = NoiseMatrices(Append(noise_cov.cov,
                   cov_of([j \in 1..k |-> data[kneighbors(data, i, k)[j]]])))
          /\ UNCHANGED << pc, err >>
  /\ UNCHANGED << entry, shares, svars, kvars, mvars, gvars,
                  degree, kernel_sigma, dim, M, equalize, logger, npts, log >>

\* local_covariance, line 291: the covariances are returned.
lc_return ==
  /\ pc = "lc_row"
  /\ Len(noise_cov.cov) = Len(data)
  /\ pc' = "done"
  /\ UNCHANGED << entry, shares, err, svars, kvars, nvars, mvars, gvars >>

NextLocalCov == lc_fit \/ lc_row \/ lc_return

SpecLocalCov == InitLocalCov /\ [][NextLocalCov]_vars

\* ------------------------------------------------------------------------
\* Claims about local_covariance
\* ------------------------------------------------------------------------

\* C13: for N points and a neighbourhood size k with k > N - 1 (k = N
\* included) or N < 2, local_covariance computes no covariance and does
\* not return.
C13_FailsBeyondNMinusOne ==
  (entry = "local_covariance" /\ (k > Len(data) - 1 \/ Len(data) < 2)) =>
    /\ noise_cov.cov = << >>
    /\ pc # "done"

====
